---- MODULE Spec2Model ----
(***************************************************************************)
(* Model of crates/pumpfun/src/error/mod.rs: the ClientError enum, its     *)
(* Display::fmt, its Error::source and the three From conversions.         *)
(*                                                                         *)
(* Strings are TLA+ strings; write!'s "{}" is concatenation (\o).  An      *)
(* Option is a record: None, or Some(v) = [some |-> TRUE, val |-> v].      *)
(* The program holds ClientError values in two bindings (Slots); each      *)
(* binding remembers how its value was built and what the last fmt and     *)
(* source calls on it returned.                                            *)
(***************************************************************************)
EXTENDS Integers, Sequences, FiniteSets, TLC

VARIABLES errs, origin, text, cause

vars == <<errs, origin, text, cause>>

(* ------------------------------ bounds -------------------------------- *)

\* longest generated message payload
MaxLen == 1

\* longest source() chain an upstream error carries below itself
MaxChain == 1

(* ------------------------------ options ------------------------------- *)

None == [some |-> FALSE]

Some(v) == [some |-> TRUE, val |-> v]

(* ------------------------------ inputs -------------------------------- *)

Slots == {"a", "b"}

Alphabet == {"x"}

RECURSIVE Words(_)
Words(k) ==
    IF k = 0 THEN {""}
    ELSE Words(k - 1) \cup {w \o c : w \in Words(k - 1), c \in Alphabet}

\* payloads that look like pieces of the templates themselves
Hostile == {", details: ", "Channel closed"}

Messages == Words(MaxLen) \cup Hostile

UpstreamTexts == {"connection refused", "unexpected end of input"}

CauseTexts == {"broken pipe"}

\* the lower-level errors an upstream error may itself expose through source()
RECURSIVE Chains(_)
Chains(k) ==
    IF k = 0 THEN {None}
    ELSE {None} \cup {Some([msg |-> m, source |-> c]) :
                          m \in CauseTexts, c \in Chains(k - 1)}

\* error values of one upstream type: std::io::Error ("io"),
\* solana_client ClientError ("rpc"), PubsubClientError ("pubsub"),
\* serde_json::Error ("json"), anchor_client::ClientError ("anchor"),
\* Box<dyn Error> ("boxed")
UpstreamErrors(family) ==
    {[family |-> family, msg |-> m, source |-> c] :
        m \in UpstreamTexts, c \in Chains(MaxChain)}

\* Display of an upstream error: its message text
to_string(error) == error.msg

\* the messages met when walking source() from an upstream error downwards
RECURSIVE Chain(_)
Chain(error) ==
    IF error.source.some THEN <<error.msg>> \o Chain(error.source.val)
    ELSE <<error.msg>>

(* --------------------------- enum ClientError ------------------------- *)

BondingCurveNotFound == [variant |-> "BondingCurveNotFound"]

BondingCurveError(msg) == [variant |-> "BondingCurveError", msg |-> msg]

BorshError(err) == [variant |-> "BorshError", err |-> err]

SolanaClientError(err) == [variant |-> "SolanaClientError", err |-> err]

UploadMetadataError(err) == [variant |-> "UploadMetadataError", err |-> err]

AnchorClientError(err) == [variant |-> "AnchorClientError", err |-> err]

InvalidInput(msg) == [variant |-> "InvalidInput", msg |-> msg]

InsufficientFunds == [variant |-> "InsufficientFunds"]

SimulationError(msg) == [variant |-> "SimulationError", msg |-> msg]

RateLimitExceeded == [variant |-> "RateLimitExceeded"]

Solana(msg, details) == [variant |-> "Solana", msg |-> msg, details |-> details]

Parse(msg, details) == [variant |-> "Parse", msg |-> msg, details |-> details]

Join(msg) == [variant |-> "Join", msg |-> msg]

Subscribe(msg, details) ==
    [variant |-> "Subscribe", msg |-> msg, details |-> details]

Send(msg, details) == [variant |-> "Send", msg |-> msg, details |-> details]

Other(msg) == [variant |-> "Other", msg |-> msg]

Timeout(msg, details) ==
    [variant |-> "Timeout", msg |-> msg, details |-> details]

Duplicate(msg) == [variant |-> "Duplicate", msg |-> msg]

InvalidEventType == [variant |-> "InvalidEventType"]

ChannelClosed == [variant |-> "ChannelClosed"]

\* the enum with its last variant left out
Variants_NoChannelClosed ==
    { "BondingCurveNotFound", "BondingCurveError", "BorshError",
      "SolanaClientError", "UploadMetadataError", "AnchorClientError",
      "InvalidInput", "InsufficientFunds", "SimulationError",
      "RateLimitExceeded", "Solana", "Parse", "Join", "Subscribe", "Send",
      "Other", "Timeout", "Duplicate", "InvalidEventType" }

\* the variants of the enum, in declaration order
Variants ==
    { "BondingCurveNotFound", "BondingCurveError", "BorshError",
      "SolanaClientError", "UploadMetadataError", "AnchorClientError",
      "InvalidInput", "InsufficientFunds", "SimulationError",
      "RateLimitExceeded", "Solana", "Parse", "Join", "Subscribe", "Send",
      "Other", "Timeout", "Duplicate", "InvalidEventType", "ChannelClosed" }

\* every value the constructors build from the bounded inputs
ClientError ==
    {BondingCurveNotFound, InsufficientFunds, RateLimitExceeded,
     InvalidEventType, ChannelClosed}
    \cup {BondingCurveError(m) : m \in Messages}
    \cup {InvalidInput(m) : m \in Messages}
    \cup {SimulationError(m) : m \in Messages}
    \cup {Join(m) : m \in Messages}
    \cup {Other(m) : m \in Messages}
    \cup {Duplicate(m) : m \in Messages}
    \cup {Solana(m, d) : m \in Messages, d \in Messages}
    \cup {Parse(m, d) : m \in Messages, d \in Messages}
    \cup {Subscribe(m, d) : m \in Messages, d \in Messages}
    \cup {Send(m, d) : m \in Messages, d \in Messages}
    \cup {Timeout(m, d) : m \in Messages, d \in Messages}
    \cup {BorshError(e) : e \in UpstreamErrors("io")}
    \cup {SolanaClientError(e) : e \in UpstreamErrors("rpc")}
    \cup {UploadMetadataError(e) : e \in UpstreamErrors("boxed")}
    \cup {AnchorClientError(e) : e \in UpstreamErrors("anchor")}

(* ---------------------------- Display::fmt ---------------------------- *)

fmt_arms(self) ==
    CASE self.variant = "BondingCurveNotFound" -> "Bonding curve not found"
      [] self.variant = "BondingCurveError" ->
            "Bonding curve error: " \o self.msg
      [] self.variant = "BorshError" ->
            "Borsh serialization error: " \o to_string(self.err)
      [] self.variant = "SolanaClientError" ->
            "Solana client error: " \o to_string(self.err)
      [] self.variant = "UploadMetadataError" ->
            "Metadata upload error: " \o to_string(self.err)
      [] self.variant = "AnchorClientError" ->
            "Anchor client error: " \o to_string(self.err)
      [] self.variant = "InvalidInput" -> "Invalid input: " \o self.msg
      [] self.variant = "InsufficientFunds" ->
            "Insufficient funds for transaction"
      [] self.variant = "SimulationError" ->
            "Transaction simulation failed: " \o self.msg
      [] self.variant = "RateLimitExceeded" -> "Rate limit exceeded"
      [] self.variant = "Solana" ->
            "Solana error: " \o self.msg \o ", details: " \o self.details
      [] self.variant = "Parse" ->
            "Parse error: " \o self.msg \o ", details: " \o self.details
      [] self.variant = "Join" -> "Task join error: " \o self.msg
      [] self.variant = "Subscribe" ->
            "Subscribe error: " \o self.msg \o ", details: " \o self.details
      [] self.variant = "Send" ->
            "Send error: " \o self.msg \o ", details: " \o self.details
      [] self.variant = "Other" -> "Other error: " \o self.msg
      [] self.variant = "Timeout" ->
            "Operation timed out: " \o self.msg \o ", details: "
                \o self.details
      [] self.variant = "Duplicate" -> "Duplicate event: " \o self.msg
      [] self.variant = "InvalidEventType" -> "Invalid event type"
      [] self.variant = "ChannelClosed" -> "Channel closed"

\* fmt with the Solana arm's two arguments swapped
fmt_SolanaSwapped(self) ==
    IF self.variant = "Solana"
    THEN "Solana error: " \o self.details \o ", details: " \o self.msg
    ELSE fmt_arms(self)

\* fmt with the InsufficientFunds literal cut short
fmt_ShortLiteral(self) ==
    IF self.variant = "InsufficientFunds" THEN "Insufficient funds"
    ELSE fmt_arms(self)

\* fmt with the Timeout arm leaving out its details
fmt_TimeoutNoDetails(self) ==
    IF self.variant = "Timeout" THEN "Operation timed out: " \o self.msg
    ELSE fmt_arms(self)

\* fmt with the Join arm pasted from the Other arm
fmt_JoinAsOther(self) ==
    IF self.variant = "Join" THEN "Other error: " \o self.msg
    ELSE fmt_arms(self)

fmt(self) == fmt_arms(self)

(* ---------------------------- Error::source --------------------------- *)

\* source without the UploadMetadataError arm
source_NoUpload(self) ==
    CASE self.variant = "BorshError" -> Some(self.err)
      [] self.variant = "SolanaClientError" -> Some(self.err)
      [] self.variant = "AnchorClientError" -> Some(self.err)
      [] OTHER -> None

\* source handing out a copy of the wrapped error that kept only its message
source_Reformatted(self) ==
    CASE self.variant = "BorshError" ->
            Some([self.err EXCEPT !.source = None])
      [] self.variant = "SolanaClientError" -> Some(self.err)
      [] self.variant = "UploadMetadataError" -> Some(self.err)
      [] self.variant = "AnchorClientError" -> Some(self.err)
      [] OTHER -> None

source(self) ==
    CASE self.variant = "BorshError" -> Some(self.err)
      [] self.variant = "SolanaClientError" -> Some(self.err)
      [] self.variant = "UploadMetadataError" -> Some(self.err)
      [] self.variant = "AnchorClientError" -> Some(self.err)
      [] OTHER -> None

(* ------------------------------- From --------------------------------- *)

\* the conversion keeping the upstream error instead of its text
from_SolanaClientError_Wrapping(error) == SolanaClientError(error)

from_SolanaClientError(error) ==
    Solana("Solana client error", to_string(error))

\* the conversion with the label pasted from the RPC one
from_PubsubClientError_RpcLabel(error) ==
    Solana("Solana client error", to_string(error))

from_PubsubClientError(error) ==
    Solana("PubSub client error", to_string(error))

from_Error(err) == Parse("JSON serialization error", to_string(err))

(* ------------------------------ state --------------------------------- *)

\* a binding that holds no value yet
Vacant == [variant |-> "(vacant)"]

\* how a binding's value was built: by which operation, and from which
\* upstream error (None when the constructor takes no error)
Built(op, arg) == [op |-> op, arg |-> arg]

NotCalled == [called |-> FALSE]

Returned(r) == [called |-> TRUE, ret |-> r]

Init ==
    /\ errs = [s \in Slots |-> Vacant]
    /\ origin = [s \in Slots |-> Built("none", None)]
    /\ text = [s \in Slots |-> None]
    /\ cause = [s \in Slots |-> NotCalled]

\* A binding is assigned once (a let binding: the value is moved in and the
\* binding is never assigned again).

\* a caller constructs a variant directly
Construct(s) ==
    \E value \in ClientError :
        /\ errs[s] = Vacant
        /\ errs' = [errs EXCEPT ![s] = value]
        /\ origin' = [origin EXCEPT ![s] =
                          Built("new", IF "err" \in DOMAIN value
                                       THEN Some(value.err) ELSE None)]
        /\ text' = [text EXCEPT ![s] = None]
        /\ cause' = [cause EXCEPT ![s] = NotCalled]

\* impl From<SolanaClientError> for ClientError
From_SolanaClientError(s, error) ==
    /\ errs[s] = Vacant
    /\ errs' = [errs EXCEPT ![s] = from_SolanaClientError(error)]
    /\ origin' = [origin EXCEPT ![s] = Built("from_rpc", Some(error))]
    /\ text' = [text EXCEPT ![s] = None]
    /\ cause' = [cause EXCEPT ![s] = NotCalled]

\* impl From<PubsubClientError> for ClientError
From_PubsubClientError(s, error) ==
    /\ errs[s] = Vacant
    /\ errs' = [errs EXCEPT ![s] = from_PubsubClientError(error)]
    /\ origin' = [origin EXCEPT ![s] = Built("from_pubsub", Some(error))]
    /\ text' = [text EXCEPT ![s] = None]
    /\ cause' = [cause EXCEPT ![s] = NotCalled]

\* impl From<serde_json::Error> for ClientError
From_Error(s, err) ==
    /\ errs[s] = Vacant
    /\ errs' = [errs EXCEPT ![s] = from_Error(err)]
    /\ origin' = [origin EXCEPT ![s] = Built("from_json", Some(err))]
    /\ text' = [text EXCEPT ![s] = None]
    /\ cause' = [cause EXCEPT ![s] = NotCalled]

\* Display::fmt(&self) with the payload taken out of the value while printing
Display_fmt_Taking(s) ==
    /\ errs[s] # Vacant
    /\ text' = [text EXCEPT ![s] = Some(fmt(errs[s]))]
    /\ errs' = [errs EXCEPT ![s] =
                    IF "msg" \in DOMAIN errs[s]
                    THEN [errs[s] EXCEPT !.msg = ""] ELSE errs[s]]
    /\ UNCHANGED <<origin, cause>>

\* Display::fmt(&self): to_string / format!("{}", e)
Display_fmt(s) ==
    /\ errs[s] # Vacant
    /\ text' = [text EXCEPT ![s] = Some(fmt(errs[s]))]
    /\ UNCHANGED <<errs, origin, cause>>

\* Error::source(&self)
Error_source(s) ==
    /\ errs[s] # Vacant
    /\ cause' = [cause EXCEPT ![s] = Returned(source(errs[s]))]
    /\ UNCHANGED <<errs, origin, text>>

Next ==
    \E s \in Slots :
        \/ Construct(s)
        \/ \E error \in UpstreamErrors("rpc") : From_SolanaClientError(s, error)
        \/ \E error \in UpstreamErrors("pubsub") :
                From_PubsubClientError(s, error)
        \/ \E err \in UpstreamErrors("json") : From_Error(s, err)
        \/ Display_fmt(s)
        \/ Error_source(s)

Spec == Init /\ [][Next]_vars

(* ------------------------------ helpers ------------------------------- *)

\* p occurs in t as a contiguous substring
Contains(t, p) ==
    \E i \in 1 .. (Len(t) - Len(p) + 1) : SubSeq(t, i, i + Len(p) - 1) = p

\* p is a prefix of t
IsPrefix(p, t) == Len(p) <= Len(t) /\ SubSeq(t, 1, Len(p)) = p

Wrapping ==
    {"BorshError", "SolanaClientError", "UploadMetadataError",
     "AnchorClientError"}

Conversions == {"from_rpc", "from_pubsub", "from_json"}

\* the variants some value of which has a cause, and those none of whose
\* values has one
CauseVariants ==
    {v \in Variants : \E e \in ClientError : e.variant = v /\ source(e).some}

NoCauseVariants ==
    {v \in Variants : \A e \in ClientError : e.variant = v => ~source(e).some}

(* ------------------------------- claims ------------------------------- *)

\* C1: source returns a value exactly for the variants BorshError,
\* SolanaClientError, UploadMetadataError and AnchorClientError, and none for
\* a value of any other variant.
C1_CauseIffWrapping ==
    \A s \in Slots :
        cause[s].called =>
            (cause[s].ret.some <=> errs[s].variant \in Wrapping)

C1_Witness ==
    \E s, t \in Slots :
        /\ cause[s].called /\ errs[s].variant = "UploadMetadataError"
        /\ cause[t].called /\ errs[t].variant = "Solana"

\* C2: each conversion accepts every upstream error and builds the stated
\* value: Solana("Solana client error", t) from an RPC client error,
\* Solana("PubSub client error", t) from a publish/subscribe client error and
\* Parse("JSON serialization error", t) from a JSON error, t being the
\* upstream message text, unchanged.
C2_ConversionsMapAsStated ==
    \A s \in Slots :
        /\ origin[s].op = "from_rpc" =>
              errs[s] = [variant |-> "Solana", msg |-> "Solana client error",
                         details |-> origin[s].arg.val.msg]
        /\ origin[s].op = "from_pubsub" =>
              errs[s] = [variant |-> "Solana", msg |-> "PubSub client error",
                         details |-> origin[s].arg.val.msg]
        /\ origin[s].op = "from_json" =>
              errs[s] = [variant |-> "Parse",
                         msg |-> "JSON serialization error",
                         details |-> origin[s].arg.val.msg]
        /\ errs[s] = Vacant =>
              /\ \A e \in UpstreamErrors("rpc") :
                    ENABLED From_SolanaClientError(s, e)
              /\ \A e \in UpstreamErrors("pubsub") :
                    ENABLED From_PubsubClientError(s, e)
              /\ \A e \in UpstreamErrors("json") : ENABLED From_Error(s, e)

C2_Witness ==
    \E s, t \in Slots :
        /\ origin[s].op = "from_pubsub"
        /\ origin[t].op = "from_json"
        /\ origin[t].arg.val.msg = "unexpected end of input"

\* C3: rendering the value converted from an RPC client error with message
\* text t gives exactly "Solana error: Solana client error, details: " then t.
C3_ConvertThenRender ==
    \A s \in Slots :
        (origin[s].op = "from_rpc" /\ text[s].some) =>
            text[s].val = "Solana error: Solana client error, details: "
                              \o origin[s].arg.val.msg

C3_Witness ==
    \E s \in Slots :
        /\ origin[s].op = "from_rpc"
        /\ origin[s].arg.val.msg = "connection refused"
        /\ text[s].some

\* C4: fmt can be called on every value, SimulationError(m) renders to
\* "Transaction simulation failed: " then m, and each of the five variants
\* without payload renders to its one literal.
C4_FixedTemplates ==
    \A s \in Slots :
        /\ errs[s] # Vacant => ENABLED Display_fmt(s)
        /\ text[s].some =>
              /\ errs[s].variant = "SimulationError" =>
                    text[s].val = "Transaction simulation failed: "
                                      \o errs[s].msg
              /\ errs[s].variant = "ChannelClosed" =>
                    text[s].val = "Channel closed"
              /\ errs[s].variant = "InvalidEventType" =>
                    text[s].val = "Invalid event type"
              /\ errs[s].variant = "BondingCurveNotFound" =>
                    text[s].val = "Bonding curve not found"
              /\ errs[s].variant = "InsufficientFunds" =>
                    text[s].val = "Insufficient funds for transaction"
              /\ errs[s].variant = "RateLimitExceeded" =>
                    text[s].val = "Rate limit exceeded"

C4_Witness ==
    \E s, t \in Slots :
        /\ text[s].some /\ errs[s].variant = "SimulationError"
        /\ errs[s].msg # ""
        /\ text[t].some /\ errs[t].variant = "InsufficientFunds"

\* C5: the rendered text contains every payload field of the value as a
\* contiguous substring: the message, the label and the details, and the text
\* of the wrapped error.
C5_PayloadAppearsVerbatim ==
    \A s \in Slots :
        text[s].some =>
            /\ "msg" \in DOMAIN errs[s] => Contains(text[s].val, errs[s].msg)
            /\ "details" \in DOMAIN errs[s] =>
                  Contains(text[s].val, errs[s].details)
            /\ "err" \in DOMAIN errs[s] =>
                  Contains(text[s].val, origin[s].arg.val.msg)

C5_Witness ==
    \E s, t \in Slots :
        /\ text[s].some /\ errs[s].variant = "Timeout"
        /\ errs[s].msg = ", details: " /\ errs[s].details = "x"
        /\ text[t].some /\ errs[t].variant = "AnchorClientError"

\* C6: source of a value built directly around an upstream error e returns e
\* itself, with e's own cause chain intact, and rendering the value still
\* gives its own message.
C6_CauseIsTheOriginal ==
    \A s \in Slots :
        (origin[s].op = "new" /\ origin[s].arg.some) =>
            /\ errs[s].variant \in Wrapping
            /\ cause[s].called =>
                  /\ cause[s].ret = origin[s].arg
                  /\ Chain(cause[s].ret.val) = Chain(origin[s].arg.val)
            /\ text[s].some =>
                  text[s].val =
                      (CASE errs[s].variant = "BorshError" ->
                                "Borsh serialization error: "
                         [] errs[s].variant = "SolanaClientError" ->
                                "Solana client error: "
                         [] errs[s].variant = "UploadMetadataError" ->
                                "Metadata upload error: "
                         [] errs[s].variant = "AnchorClientError" ->
                                "Anchor client error: ")
                      \o origin[s].arg.val.msg

C6_Witness ==
    \E s \in Slots :
        /\ origin[s].op = "new" /\ origin[s].arg.some
        /\ errs[s].variant = "BorshError"
        /\ origin[s].arg.val.source.some
        /\ cause[s].called /\ text[s].some

\* C7: a fmt or source call leaves every value's variant and payload as they
\* were, and a second fmt of a value gives the text the first one gave.
C7_CallsDoNotMutate ==
    [][ /\ (\E s \in Slots : Display_fmt(s) \/ Error_source(s)) =>
              errs' = errs
        /\ \A s \in Slots :
              (text[s].some /\ text'[s].some) => text'[s] = text[s]
      ]_vars

C7_Witness ==
    \E s \in Slots :
        /\ text[s].some /\ cause[s].called
        /\ "msg" \in DOMAIN errs[s] /\ errs[s].msg # ""

\* C8 as stated: the enum has exactly 19 variants, 4 of them with a cause and
\* all the others without.
C8_NineteenVariants ==
    /\ Cardinality(Variants) = 19
    /\ Cardinality(CauseVariants) = 4
    /\ CauseVariants \cup NoCauseVariants = Variants
    /\ \A s \in Slots : errs[s] # Vacant => errs[s].variant \in Variants

\* C8 amended: the enum has exactly 20 variants; 4 of them have a cause, the
\* 16 others have none, and every value is of one of the 20.
C8_TwentyVariants ==
    /\ Cardinality(Variants) = 20
    /\ Cardinality(CauseVariants) = 4
    /\ Cardinality(NoCauseVariants) = 16
    /\ CauseVariants \cup NoCauseVariants = Variants
    /\ {e.variant : e \in ClientError} = Variants
    /\ \A s \in Slots : errs[s] # Vacant => errs[s].variant \in Variants

C8_Witness ==
    \E s, t \in Slots :
        /\ errs[s] # Vacant /\ errs[s].variant \in CauseVariants
        /\ errs[t] # Vacant /\ errs[t].variant \in NoCauseVariants

\* C9: a converted value has no cause and is never of a wrapping variant; a
\* SolanaClientError value comes only from direct construction.
C9_ConvertedHasNoCause ==
    \A s \in Slots :
        /\ origin[s].op \in Conversions =>
              /\ errs[s].variant \notin Wrapping
              /\ cause[s].called => cause[s].ret = None
        /\ errs[s].variant = "SolanaClientError" => origin[s].op = "new"

C9_Witness ==
    \E s, t \in Slots :
        /\ origin[s].op = "from_rpc" /\ cause[s].called
        /\ origin[t].op \in {"from_pubsub", "from_json"} /\ cause[t].called

\* C10: two values of different variants never render to the same text,
\* whatever their payloads; neither text is even a prefix of the other.
C10_RenderIdentifiesVariant ==
    \A s, t \in Slots :
        (text[s].some /\ text[t].some /\ errs[s].variant # errs[t].variant) =>
            /\ text[s].val # text[t].val
            /\ ~IsPrefix(text[s].val, text[t].val)

C10_Witness ==
    \E s, t \in Slots :
        /\ text[s].some /\ errs[s] = Other("Channel closed")
        /\ text[t].some /\ errs[t] = ChannelClosed

====
